---- MODULE Spec2Model ----
(***************************************************************************)
(* Model of AdvancedDataToVideoConverter (src/advanced_data_to_video.py):  *)
(* the per-frame codec (differential + run-length), the capacity planner,  *)
(* construction, the encode / decode passes over a persisted session and   *)
(* the command-line entry point; and of the basic DataToVideoConverter     *)
(* (src/data_to_video.py).                                                 *)
(*                                                                         *)
(* Bytes are integers 0..255.  Python's 0-based indices are kept in the    *)
(* loop states (field i); TLA+ sequences are 1-based, so data[i] of the    *)
(* source is data[i + 1] here.                                             *)
(***************************************************************************)
EXTENDS Integers, Sequences, FiniteSets

(***************************************************************************)
(* Bounds of the model (not program constants).                            *)
(***************************************************************************)
\* longest enumerated input file / codec input
MaxLen == 5

\* byte values the enumerated inputs are built from
Alphabet == {0, 1, 255}

(***************************************************************************)
(* Program constants.                                                      *)
(***************************************************************************)
\* the escape byte of the run-length code, and the cap of a run
EscapeByte == 255

\* _apply_rle encodes a run only when count > 3
MinRun == 3

\* default matrix_size of create_compression_matrix
MatrixSize == 16

\* frames per second the constructor assumes for the audio capacity
AssumedFps == 30

(***************************************************************************)
(* Small helpers.                                                          *)
(***************************************************************************)
Min(a, b) == IF a < b THEN a ELSE b

Max(a, b) == IF a > b THEN a ELSE b

\* s[lo:hi] of Python for 0 <= lo, with hi clamped to len(s)
Slice(s, lo, hi) == SubSeq(s, lo + 1, Min(hi, Len(s)))

\* [v] * n
Repeat(v, n) == [k \in 1..n |-> v]

\* the function f with domain 1..n as a sequence value (the same value,
\* held as a tuple instead of being recomputed at each use)
AsSequence(f) == <<>> \o f

\* the least k with 2^k >= n: the depth at which a loop of at most n
\* iterations is unrolled by doubling
Log2Ceil(n) == CHOOSE k \in 0..40 : 2^k >= n /\ \A j \in 0..(k - 1) : 2^j < n

(***************************************************************************)
(* Differential encoding: create_compression_matrix, lines 57-63.          *)
(* np.diff on a uint8 array wraps modulo 256; prepend=data_array[0] makes  *)
(* the first difference 0.  A chunk of length <= 1 is passed through.      *)
(***************************************************************************)
DifferentialEncode(data_array) ==
    IF Len(data_array) > 1
    THEN AsSequence([k \in 1..Len(data_array) |->
            IF k = 1 THEN 0 ELSE (data_array[k] - data_array[k - 1]) % 256])
    ELSE data_array

(***************************************************************************)
(* _apply_rle, lines 93-112.                                               *)
(***************************************************************************)
\* RleCount without the cap of 255 elements per run
RleCountUncapped(data, i) ==
    LET stop(c) == ~(i + c < Len(data) /\ data[i + 1] = data[i + c + 1])
        cands == {c \in 1..(Len(data) - i) : stop(c)}
    IN  CHOOSE c \in cands : \A d \in cands : c <= d

\* the inner while loop (lines 101-103): count grows from 1 while
\* i + count < len(data), data[i] == data[i + count] and count < 255
RleCount(data, i) ==
    LET stop(c) == ~(i + c < Len(data) /\ data[i + 1] = data[i + c + 1] /\ c < 255)
        cands == {c \in 1..Min(255, Len(data) - i) : stop(c)}
    IN  CHOOSE c \in cands : \A d \in cands : c <= d

\* ApplyRleBody that escapes every run longer than 1 (count > 1)
ApplyRleBodyEager(data, st) ==
    LET count == RleCount(data, st.i)
        value == data[st.i + 1]
    IN  [i   |-> st.i + count,
         out |-> IF count > 1
                 THEN st.out \o <<EscapeByte, value, count>>
                 ELSE st.out \o Repeat(value, count)]

\* ApplyRleBody that also escapes every literal escape byte, as
\* [255, 255, count]
ApplyRleBodyEscaping(data, st) ==
    LET count == RleCount(data, st.i)
        value == data[st.i + 1]
    IN  [i   |-> st.i + count,
         out |-> IF count > MinRun \/ value = EscapeByte
                 THEN st.out \o <<EscapeByte, value, count>>
                 ELSE st.out \o Repeat(value, count)]

\* one iteration of the outer while loop (lines 101-110)
ApplyRleBody(data, st) ==
    LET count == RleCount(data, st.i)
        value == data[st.i + 1]
    IN  [i   |-> st.i + count,
         out |-> IF count > MinRun
                 THEN st.out \o <<EscapeByte, value, count>>
                 ELSE st.out \o Repeat(value, count)]

\* while i < len(data): at most 2^k iterations from st
RECURSIVE ApplyRleLoop(_, _, _)
ApplyRleLoop(data, st, k) ==
    IF ~(st.i < Len(data)) THEN st
    ELSE IF k = 0 THEN ApplyRleBody(data, st)
    ELSE LET half == ApplyRleLoop(data, st, k - 1)
         IN  ApplyRleLoop(data, half, k - 1)

ApplyRle(data) ==
    IF Len(data) = 0 THEN data
    ELSE ApplyRleLoop(data, [i |-> 0, out |-> <<>>], Log2Ceil(Len(data))).out

(***************************************************************************)
(* _decode_rle, lines 114-131.                                             *)
(***************************************************************************)
\* DecodeRleBody with the escape test off by one (i + 3 < len(data)): an
\* escape triple that ends the data is copied literally
DecodeRleBodyLateEscape(data, st) ==
    IF data[st.i + 1] = EscapeByte /\ st.i + 3 < Len(data)
    THEN [i   |-> st.i + 3,
          out |-> st.out \o Repeat(data[st.i + 2], data[st.i + 3])]
    ELSE [i   |-> st.i + 1,
          out |-> Append(st.out, data[st.i + 1])]

\* DecodeRleBody that steps over an escape by its count (i += count)
DecodeRleBodyCountStride(data, st) ==
    IF data[st.i + 1] = EscapeByte /\ st.i + 2 < Len(data)
    THEN [i   |-> st.i + data[st.i + 3],
          out |-> st.out \o Repeat(data[st.i + 2], data[st.i + 3])]
    ELSE [i   |-> st.i + 1,
          out |-> Append(st.out, data[st.i + 1])]

\* one iteration of the while loop (lines 122-129)
DecodeRleBody(data, st) ==
    IF data[st.i + 1] = EscapeByte /\ st.i + 2 < Len(data)
    THEN [i   |-> st.i + 3,
          out |-> st.out \o Repeat(data[st.i + 2], data[st.i + 3])]
    ELSE [i   |-> st.i + 1,
          out |-> Append(st.out, data[st.i + 1])]

RECURSIVE DecodeRleLoop(_, _, _)
DecodeRleLoop(data, st, k) ==
    IF ~(st.i < Len(data)) THEN st
    ELSE IF k = 0 THEN DecodeRleBody(data, st)
    ELSE LET half == DecodeRleLoop(data, st, k - 1)
         IN  DecodeRleLoop(data, half, k - 1)

DecodeRle(data) ==
    IF Len(data) = 0 THEN data
    ELSE DecodeRleLoop(data, [i |-> 0, out |-> <<>>], Log2Ceil(Len(data))).out

(***************************************************************************)
(* Reversal of the differential encoding in frames_with_audio_to_file,     *)
(* lines 377-384: np.cumsum in int32, element 0 overwritten by the base,   *)
(* then np.clip to [0, 255].                                               *)
(***************************************************************************)
\* np.cumsum(d) over d[lo..hi] started from carry, by halving the range
RECURSIVE CumSumRange(_, _, _, _)
CumSumRange(d, lo, hi, carry) ==
    IF lo > hi THEN <<>>
    ELSE IF lo = hi THEN <<carry + d[lo]>>
    ELSE LET mid  == (lo + hi) \div 2
             left == CumSumRange(d, lo, mid, carry)
         IN  left \o CumSumRange(d, mid + 1, hi, left[Len(left)])

CumSum(d) == CumSumRange(d, 1, Len(d), 0)

Clip(x, lo, hi) == IF x < lo THEN lo ELSE IF x > hi THEN hi ELSE x

DifferentialDecode(decompressed, base_value) ==
    IF Len(decompressed) > 0
    THEN LET summed == CumSum(decompressed)
         IN  AsSequence([k \in 1..Len(decompressed) |->
                Clip(IF k = 1 THEN base_value ELSE summed[k], 0, 255)])
    ELSE decompressed

(***************************************************************************)
(* CapacityPlanner: __init__, lines 29-43.  A converter is the record of   *)
(* its constructor arguments; the capacities are derived from it.          *)
(***************************************************************************)
Converter(width, height, sample_rate, audio_channels) ==
    [width |-> width, height |-> height,
     sample_rate |-> sample_rate, audio_channels |-> audio_channels]

\* AdvancedDataToVideoConverter(): the default arguments of line 19
DefaultConverter == Converter(1920, 1080, 48000, 2)

pixels_per_frame(self) == self.width * self.height

bytes_per_frame_video(self) == pixels_per_frame(self) * 3

\* line 39: sample_rate // 30, whatever fps encode is later called with
samples_per_frame(self) == self.sample_rate \div AssumedFps

bytes_per_frame_audio(self) == samples_per_frame(self) * self.audio_channels * 2

bytes_per_frame_total(self) == bytes_per_frame_video(self) + bytes_per_frame_audio(self)

\* NumFrames with floor in place of ceil
NumFramesFloor(self, file_size) == file_size \div bytes_per_frame_total(self)

\* line 227: math.ceil(file_size / self.bytes_per_frame_total), for a total
\* capacity other than 0; a negative capacity gives a quotient <= 0
NumFrames(self, file_size) ==
    IF bytes_per_frame_total(self) > 0
    THEN (file_size + bytes_per_frame_total(self) - 1) \div bytes_per_frame_total(self)
    ELSE 0 - (file_size \div (0 - bytes_per_frame_total(self)))

(***************************************************************************)
(* create_compression_matrix, lines 57-91: the compressed bytes and the    *)
(* per-frame compression record.  compression_ratio is the quotient        *)
(* len(compressed) / len(data_array), kept as numerator and denominator;   *)
(* it is 1.0 for an empty chunk.                                           *)
(***************************************************************************)
\* CompressionMeta that takes the base from the differential sequence, whose
\* first element is 0, instead of from the data
CompressionMetaNoBase(data_array, compressed) ==
    [original_length   |-> Len(data_array),
     compressed_length |-> Len(compressed),
     compression_ratio |-> IF Len(data_array) > 0
                           THEN [num |-> Len(compressed), den |-> Len(data_array)]
                           ELSE [num |-> 1, den |-> 1],
     matrix_size       |-> MatrixSize,
     differential_base |-> 0]

CompressionMeta(data_array, compressed) ==
    [original_length   |-> Len(data_array),
     compressed_length |-> Len(compressed),
     compression_ratio |-> IF Len(data_array) > 0
                           THEN [num |-> Len(compressed), den |-> Len(data_array)]
                           ELSE [num |-> 1, den |-> 1],
     matrix_size       |-> MatrixSize,
     differential_base |-> IF Len(data_array) > 0 THEN data_array[1] ELSE 0]

CreateCompressionMatrix(data_chunk) ==
    LET compressed == ApplyRle(DifferentialEncode(data_chunk))
    IN  [compressed |-> compressed,
         metadata   |-> CompressionMeta(data_chunk, compressed)]

(***************************************************************************)
(* matrix_to_audio, lines 133-155: matrix_size * matrix_size int16 samples *)
(* that depend on matrix_size alone.  Their numeric values are never used  *)
(* to invert the compression; byte k of the serialized matrix is kept as   *)
(* the opaque value -k, which is no file byte.                             *)
(***************************************************************************)
MatrixAudio == [k \in 1..(MatrixSize * MatrixSize * 2) |-> 0 - k]

(***************************************************************************)
(* A pixel buffer of `size` bytes is kept as its leading bytes `head`      *)
(* followed by zeros up to `size`.                                         *)
(***************************************************************************)
\* FitVideo that leaves the compressed video at its own length
FitVideoUnpadded(compressed_video, size) ==
    [head |-> compressed_video, size |-> Len(compressed_video)]

\* lines 255-259: np.pad with zeros when shorter, truncate otherwise
FitVideo(compressed_video, size) ==
    [head |-> IF Len(compressed_video) < size
              THEN compressed_video
              ELSE Slice(compressed_video, 0, size),
     size |-> size]

\* frame_array.tobytes()[:n], line 363
FrameBytes(frame, n) ==
    LET m == Min(n, frame.size)
    IN  IF m <= Len(frame.head)
        THEN Slice(frame.head, 0, m)
        ELSE frame.head \o Repeat(0, m - Len(frame.head))

(***************************************************************************)
(* One iteration of the frame loop of file_to_frames_with_audio,           *)
(* lines 241-290.                                                          *)
(***************************************************************************)
\* StartIdx that forgets the audio capacity
StartIdxVideoOnly(self, frame_idx) == frame_idx * bytes_per_frame_video(self)

\* line 243: where the slice of frame frame_idx starts in the file
StartIdx(self, frame_idx) == frame_idx * bytes_per_frame_total(self)

EncodeFrame(self, data, frame_idx) ==
    LET file_size        == Len(data)
        start_idx        == StartIdx(self, frame_idx)
        end_idx          == Min(start_idx + bytes_per_frame_total(self), file_size)
        frame_total_data == Slice(data, start_idx, end_idx)
        video_data_size  == Min(Len(frame_total_data), bytes_per_frame_video(self))
        video_data       == Slice(frame_total_data, 0, video_data_size)
        audio_data       == IF Len(frame_total_data) > video_data_size
                            THEN Slice(frame_total_data, video_data_size,
                                       Len(frame_total_data))
                            ELSE <<>>
        cm               == CreateCompressionMatrix(video_data)
        \* line 265: b'\x00' * n is empty for n <= 0
        audio_data_padded == audio_data \o
              Repeat(0, Max(0, bytes_per_frame_audio(self) - Len(MatrixAudio)
                                 - Len(audio_data)))
        full_audio       == MatrixAudio \o audio_data_padded
    IN  [pixels |-> FitVideo(cm.compressed, bytes_per_frame_video(self)),
         audio  |-> Slice(full_audio, 0, bytes_per_frame_audio(self)),
         slice  |-> [start_idx  |-> start_idx,
                     end_idx    |-> end_idx,
                     video_data |-> video_data,
                     audio_data |-> audio_data],
         meta   |-> [frame_idx   |-> frame_idx,
                     video_bytes |-> video_data_size,
                     audio_bytes |-> Len(audio_data),
                     compression |-> cm.metadata]]

\* the concatenation of the sequences s[1], ..., s[n]
RECURSIVE Concat(_, _)
Concat(s, n) == IF n = 0 THEN <<>> ELSE Concat(s, n - 1) \o s[n]

(***************************************************************************)
(* One iteration of the frame loop of frames_with_audio_to_file,           *)
(* lines 354-401.  The audio stream is kept as bytes; an int16 sample is   *)
(* two of them, so samples a..b of the stream are bytes 2a..2b.            *)
(***************************************************************************)
\* audio_data[a:b] of the int16 array, as bytes
SampleSlice(audio_bytes, a, b) == Slice(audio_bytes, 2 * a, 2 * b)

DecodeFrame(self, metadata, frames, audio_bytes, frame_idx) ==
    LET frame_meta         == metadata.frames[frame_idx + 1]
        \* line 401 adds self.samples_per_frame once per earlier frame
        audio_offset       == frame_idx * samples_per_frame(self)
        compressed_bytes   == FrameBytes(frames[frame_idx + 1], frame_meta.video_bytes)
        matrix_size        == frame_meta.compression.matrix_size
        samples_for_matrix == matrix_size * matrix_size
        matrix_audio_samples ==
            SampleSlice(audio_bytes, audio_offset, audio_offset + samples_for_matrix)
        decompressed       == DecodeRle(compressed_bytes)
        original_data      == DifferentialDecode(decompressed,
                                  frame_meta.compression.differential_base)
        video_data         == Slice(original_data, 0,
                                    frame_meta.compression.original_length)
        audio_start        == audio_offset + samples_for_matrix
        audio_end          == audio_start + (frame_meta.audio_bytes \div 2)
        frame_audio_bytes  == Slice(SampleSlice(audio_bytes, audio_start, audio_end),
                                    0, frame_meta.audio_bytes)
    IN  [\* audio_to_matrix (line 175) reshapes to matrix_size x matrix_size and
         \* raises ValueError when fewer samples are left at the cursor
         raises       |-> Len(matrix_audio_samples) # 2 * samples_for_matrix,
         audio_offset |-> audio_offset,
         compressed_bytes |-> compressed_bytes,
         decompressed_len |-> Len(decompressed),
         video_data   |-> video_data,
         audio_data   |-> frame_audio_bytes]

(***************************************************************************)
(* State.                                                                  *)
(***************************************************************************)
VARIABLES
    pc,           \* "unconstructed", "start", "encoded", "encode_failed",
                  \* "decoded", "decode_failed"
    data,         \* the input file's bytes
    conv,         \* the converter instance that encodes
    fps,          \* the fps argument of file_to_frames_with_audio
    num_frames,   \* line 227
    frames_metadata, \* the list built by the frame loop (line 290)
    slices,       \* per frame: start_idx, end_idx, video_data, audio_data
                  \* (lines 243-250)
    png,          \* the frame images written (line 281), in index order
    audio_raw,    \* audio.raw: [written, bytes]
    metadata_json,\* metadata.json: [written, content]
    decoder,      \* the converter instance that decodes
    output,       \* the reconstructed file: [written, bytes]
    verification, \* "none", "PASSED", "FAILED" (lines 417-420)
    codec,        \* the codec functions applied on their own to one input
    damage,       \* what the persisted metadata.json lacks when decode opens it
    reads,        \* what the last decode read: the audio stream, how many frame
                  \* images, and where its audio cursor stood at each frame
    cli,          \* the last run of a command-line entry point
    basic         \* the session of the basic converter (src/data_to_video.py)

vars == <<pc, data, conv, fps, num_frames, frames_metadata, slices, png, audio_raw,
          metadata_json, decoder, output, verification, codec, damage, reads, cli,
          basic>>

NotWritten == [written |-> FALSE]

CodecIdle == [op |-> "idle"]

\* metadata.json as encode leaves it: no key is missing
Undamaged == [level |-> "none", field |-> "", frame |-> 0]

\* no decode pass has read anything
NothingRead == [audio |-> FALSE, frames |-> 0, cursors |-> <<>>]

\* no command-line run yet
CliIdle == [program |-> "none", mode |-> "none", input_found |-> TRUE,
            exit_status |-> 0]

\* the basic converter is not in use
BasicIdle == [pc |-> "unused"]

(***************************************************************************)
(* Inputs.                                                                 *)
(***************************************************************************)
\* every byte sequence over Alphabet of length 0..MaxLen
SmallFiles == UNION {[1..n -> Alphabet] : n \in 0..MaxLen}

\* every one-byte file
SingleByteFiles == {<<b>> : b \in 0..255}

\* b'A' * 10000 (src/compare_encoders.py line 19 builds its repetitive file
\* from such runs)
RepeatedFile == Repeat(65, 10000)

\* converters with a one- or two-pixel frame and an audio frame that holds
\* the matrix plus 2 overflow bytes (mono), the matrix plus 4 (stereo), the
\* matrix alone, only 2 bytes, or nothing (sample_rate < 30)
SmallConverters ==
    { Converter(1, 1, 7710, 1), Converter(1, 1, 3870, 2),
      Converter(2, 1, 7680, 1), Converter(1, 1, 30, 1), Converter(1, 1, 29, 1) }

\* converters whose audio frame holds the matrix's samples
HoldsMatrix(self) ==
    samples_per_frame(self) * self.audio_channels >= MatrixSize * MatrixSize

\* bytes(range(256)) repeated and cut to n bytes, as the sequential file of
\* src/compare_encoders.py line 27; the long ones span two and three frames
\* of the small converters that hold the matrix
SequentialFile(n) == [k \in 1..n |-> (k - 1) % 256]

ShortSequentialFiles == {SequentialFile(n) : n \in {MaxLen + 1, 2 * MaxLen + 1}}

LongSequentialFiles == {SequentialFile(n) : n \in {520, 1040}}

\* bytes(range(256)) * 100, the sequential file of src/compare_encoders.py
\* line 27
CyclingFile == SequentialFile(256 * 100)

FpsChoices == {30, 24}

Init ==
    /\ pc = "start"
    /\ \/ data \in SmallFiles \cup SingleByteFiles /\ conv \in SmallConverters
       \/ data \in ShortSequentialFiles /\ conv \in SmallConverters
       \/ data \in LongSequentialFiles /\ conv \in SmallConverters /\ HoldsMatrix(conv)
       \/ data \in SingleByteFiles \cup {RepeatedFile, CyclingFile}
          /\ conv = DefaultConverter
    /\ fps \in FpsChoices
    /\ num_frames = 0
    /\ frames_metadata = <<>>
    /\ slices = <<>>
    /\ png = <<>>
    /\ audio_raw = NotWritten
    /\ metadata_json = NotWritten
    /\ decoder = conv
    /\ output = NotWritten
    /\ verification = "none"
    /\ codec = CodecIdle
    /\ damage = Undamaged
    /\ reads = NothingRead
    /\ cli = CliIdle
    /\ basic = BasicIdle

(***************************************************************************)
(* file_to_frames_with_audio, lines 207-323.  With no frame,               *)
(* np.concatenate([]) at line 296 raises ValueError: nothing after it runs *)
(* and neither audio.raw nor metadata.json is written.  A converter whose  *)
(* total capacity is 0 makes line 227 divide by zero.                      *)
(***************************************************************************)
FileToFramesWithAudio ==
    /\ pc = "start"
    /\ IF bytes_per_frame_total(conv) = 0
       THEN \* ZeroDivisionError at line 227, before the output directory is made
            /\ pc' = "encode_failed"
            /\ UNCHANGED <<num_frames, frames_metadata, slices, png, audio_raw,
                           metadata_json>>
       ELSE LET file_size == Len(data)
                n         == NumFrames(conv, file_size)
                enc       == AsSequence([k \in 1..n |-> EncodeFrame(conv, data, k - 1)])
                metas     == [k \in 1..n |-> enc[k].meta]
            IN  /\ num_frames' = n
                /\ frames_metadata' = metas
                /\ slices' = [k \in 1..n |-> enc[k].slice]
                /\ png' = [k \in 1..n |-> enc[k].pixels]
                /\ IF n <= 0
                   THEN /\ pc' = "encode_failed"
                        /\ UNCHANGED <<audio_raw, metadata_json>>
                   ELSE /\ pc' = "encoded"
                        /\ audio_raw' =
                             [written |-> TRUE,
                              bytes |-> Concat([k \in 1..n |-> enc[k].audio], n)]
                        /\ metadata_json' =
                             [written |-> TRUE,
                              content |-> [original_size  |-> file_size,
                                           width          |-> conv.width,
                                           height         |-> conv.height,
                                           sample_rate    |-> conv.sample_rate,
                                           audio_channels |-> conv.audio_channels,
                                           num_frames     |-> n,
                                           fps            |-> fps,
                                           frames         |-> metas]]
    /\ UNCHANGED <<data, conv, fps, decoder, output, verification, codec, damage,
                   reads, basic>>

\* file_to_frames_with_audio called on the converter, as the example and
\* comparison scripts do
Encode == FileToFramesWithAudio /\ UNCHANGED cli

(***************************************************************************)
(* frames_with_audio_to_file, lines 325-420.                               *)
(***************************************************************************)
\* SizeVerification that treats a size mismatch as fatal: it raises before
\* the output file is written
SizeVerificationFatal(all_data, original_size) ==
    LET trimmed == Slice(all_data, 0, original_size)
    IN  IF Len(trimmed) = original_size
        THEN [raised       |-> FALSE,
              output       |-> [written |-> TRUE, bytes |-> trimmed],
              verification |-> "PASSED"]
        ELSE [raised       |-> TRUE,
              output       |-> NotWritten,
              verification |-> "FAILED"]

\* lines 406-420: trim to original_size, write the output file, then compare
\* the length and print PASSED or FAILED; the method returns either way
SizeVerification(all_data, original_size) ==
    LET trimmed == Slice(all_data, 0, original_size)
    IN  [raised       |-> FALSE,
         output       |-> [written |-> TRUE, bytes |-> trimmed],
         verification |-> IF Len(trimmed) = original_size THEN "PASSED" ELSE "FAILED"]

\* a decode pass that raised after reading the audio stream (or not) and
\* frames_read frame images
DecodeRaised(audio_read, frames_read, cursors) ==
    [raised       |-> TRUE,
     reads        |-> [audio |-> audio_read, frames |-> frames_read,
                       cursors |-> cursors],
     output       |-> NotWritten,
     verification |-> "none"]

\* the iteration of frame frame_idx raises: a key of frame_meta or of its
\* compression record is missing (KeyError at lines 363, 366, 379, 387, 394;
\* differential_base is looked up only for a non-empty sequence), or
\* audio_to_matrix raises (line 371)
FrameRaises(dmg, dec, frame_idx) ==
    \/ dec.raises
    \/ /\ dmg.level \in {"frame", "compression"}
       /\ dmg.frame = frame_idx
       /\ dmg.field = "differential_base" => dec.decompressed_len > 0

\* the whole pass, by converter instance self, over the persisted session
DecodePass(self, meta_file, dmg, frames, audio_file) ==
    IF ~meta_file.written \/ dmg.level = "file"
    THEN \* open() or json.load raises, lines 335-336
         DecodeRaised(FALSE, 0, <<>>)
    ELSE IF dmg.level = "top" /\ dmg.field \in {"original_size", "num_frames"}
    THEN \* KeyError at line 338 or 339
         DecodeRaised(FALSE, 0, <<>>)
    ELSE IF ~audio_file.written
    THEN \* np.fromfile raises, line 347
         DecodeRaised(FALSE, 0, <<>>)
    ELSE LET metadata      == meta_file.content
             original_size == metadata.original_size
             n             == metadata.num_frames
             no_frames     == dmg.level = "top" /\ dmg.field = "frames"
             dec == AsSequence([k \in 1..n |->
                        DecodeFrame(self, metadata, frames, audio_file.bytes, k - 1)])
             \* line 355 raises KeyError in the first iteration when the
             \* frames list is missing
             failing  == {k \in 1..n : no_frames \/ FrameRaises(dmg, dec[k], k - 1)}
             first    == CHOOSE k \in failing : \A j \in failing : k <= j
             all_data == Concat([k \in 1..n |->
                                    dec[k].video_data \o dec[k].audio_data], n)
         IN  IF failing # {}
             THEN DecodeRaised(TRUE, IF no_frames THEN 0 ELSE first,
                               [k \in 1..first |-> dec[k].audio_offset])
             ELSE LET v == SizeVerification(all_data, original_size)
                  IN  [raised       |-> v.raised,
                       reads        |-> [audio |-> TRUE, frames |-> n,
                                         cursors |-> [k \in 1..n |-> dec[k].audio_offset]],
                       output       |-> v.output,
                       verification |-> v.verification]

\* the instances that decode: the encoding one or a default-constructed one
Decoders == {conv, DefaultConverter}

\* Called before any encode, or after one that wrote no metadata.json, the
\* method raises FileNotFoundError at line 335; before any encode there is
\* still no session, and an encode can follow.
FramesWithAudioToFile ==
    /\ pc \in {"start", "encoded", "encode_failed"}
    /\ \E self \in Decoders :
         LET r == DecodePass(self, metadata_json, damage, png, audio_raw)
         IN  /\ decoder' = self
             /\ reads' = r.reads
             /\ pc' = IF ~r.raised THEN "decoded"
                      ELSE IF pc = "start" THEN "start" ELSE "decode_failed"
             /\ output' = r.output
             /\ verification' = r.verification
    /\ UNCHANGED <<data, conv, fps, num_frames, frames_metadata, slices, png,
                   audio_raw, metadata_json, codec, damage, basic>>

\* frames_with_audio_to_file called on the converter, as the example and
\* comparison scripts do
Decode == FramesWithAudioToFile /\ UNCHANGED cli

Next == Encode \/ Decode

Spec == Init /\ [][Next]_vars

(***************************************************************************)
(* A persisted session whose metadata.json decode finds damaged: not       *)
(* parseable, or parseable with one of the keys that                       *)
(* frames_with_audio_to_file looks up (lines 338-394) missing.             *)
(***************************************************************************)
\* metadata['original_size'], ['num_frames'], ['frames']: lines 338, 339, 355
TopFields == {"original_size", "num_frames", "frames"}

\* frame_meta['video_bytes'], ['compression'], ['audio_bytes']: lines 363,
\* 366, 394
FrameFields == {"video_bytes", "compression", "audio_bytes"}

\* frame_meta['compression'][...]: lines 366, 379, 387
CompressionFields == {"matrix_size", "differential_base", "original_length"}

\* the ways the metadata of a session of n frames can be damaged
Damages(n) ==
    {[level |-> "file", field |-> "unreadable", frame |-> 0]}
    \cup {[level |-> "top", field |-> f, frame |-> 0] : f \in TopFields}
    \cup {[level |-> "frame", field |-> f, frame |-> k] :
             f \in FrameFields, k \in 0..(n - 1)}
    \cup {[level |-> "compression", field |-> f, frame |-> k] :
             f \in CompressionFields, k \in 0..(n - 1)}

\* the one-byte files over Alphabet
OneByteFiles == {<<b>> : b \in Alphabet}

DamageInit ==
    /\ pc = "start"
    /\ \/ data \in {<<>>} \cup OneByteFiles \cup ShortSequentialFiles
          /\ conv \in SmallConverters
       \/ data \in LongSequentialFiles /\ conv \in SmallConverters /\ HoldsMatrix(conv)
    /\ fps \in FpsChoices
    /\ num_frames = 0
    /\ frames_metadata = <<>>
    /\ slices = <<>>
    /\ png = <<>>
    /\ audio_raw = NotWritten
    /\ metadata_json = NotWritten
    /\ decoder = conv
    /\ output = NotWritten
    /\ verification = "none"
    /\ codec = CodecIdle
    /\ damage = Undamaged
    /\ reads = NothingRead
    /\ cli = CliIdle
    /\ basic = BasicIdle

\* the session's metadata.json is damaged between encode and decode
Corrupt ==
    /\ pc = "encoded"
    /\ damage = Undamaged
    /\ damage' \in Damages(metadata_json.content.num_frames)
    /\ UNCHANGED <<pc, data, conv, fps, num_frames, frames_metadata, slices, png,
                   audio_raw, metadata_json, decoder, output, verification, codec,
                   reads, cli, basic>>

DamageNext == Encode \/ Corrupt \/ Decode

DamageSpec == DamageInit /\ [][DamageNext]_vars

(***************************************************************************)
(* The basic converter, src/data_to_video.py: DataToVideoConverter with    *)
(* file_to_frames (lines 29-99) and frames_to_file (lines 101-150).  Its   *)
(* session is the record `basic`: the instance's width and height, the     *)
(* lines of metadata.txt, the frame images in index order (each the bytes  *)
(* of its height x width x 3 array; PNG stores them losslessly), and the   *)
(* reconstructed file.  The input file is `data`.                          *)
(***************************************************************************)
\* line 27
bytes_per_frame(self) == self.width * self.height * 3

\* str(n) of a non-negative integer, as its decimal digits (line 65 writes
\* f"{key}: {value}\n")
RECURSIVE FormatInt(_)
FormatInt(n) == IF n < 10 THEN <<n>> ELSE Append(FormatInt(n \div 10), n % 10)

\* int(value) of a string of decimal digits (lines 118-119)
RECURSIVE ParseInt(_)
ParseInt(digits) ==
    IF Len(digits) = 1 THEN digits[1]
    ELSE 10 * ParseInt(SubSeq(digits, 1, Len(digits) - 1)) + digits[Len(digits)]

\* line 45: math.ceil(file_size / self.bytes_per_frame)
BasicNumFrames(self, file_size) ==
    (file_size + bytes_per_frame(self) - 1) \div bytes_per_frame(self)

\* PadFrame that leaves a short last frame as it is
PadFrameNone(frame_data, size) == frame_data

\* lines 77-79: the last frame is padded with zeros
PadFrame(frame_data, size) ==
    IF Len(frame_data) < size
    THEN frame_data \o Repeat(0, size - Len(frame_data))
    ELSE frame_data

\* lines 72-86: the bytes of frame frame_idx
BasicFrame(self, file_bytes, frame_idx) ==
    LET start_idx == frame_idx * bytes_per_frame(self)
        end_idx   == Min(start_idx + bytes_per_frame(self), Len(file_bytes))
    IN  PadFrame(Slice(file_bytes, start_idx, end_idx), bytes_per_frame(self))

\* lines 53-65: metadata.txt, one "key: value" line per key; the values are
\* text
MetadataTxt(self, file_size, n) ==
    [written       |-> TRUE,
     original_size |-> FormatInt(file_size),
     width         |-> FormatInt(self.width),
     height        |-> FormatInt(self.height),
     num_frames    |-> FormatInt(n)]

\* a basic converter on which nothing was called yet
BasicStart(width, height) ==
    [pc |-> "start", width |-> width, height |-> height,
     metadata_txt |-> NotWritten, frames |-> <<>>, output |-> NotWritten]

\* file_to_frames
FileToFrames ==
    /\ basic.pc = "start"
    /\ LET file_size == Len(data)
           n         == BasicNumFrames(basic, file_size)
       IN  basic' = [basic EXCEPT
                       !.pc = "encoded",
                       !.metadata_txt = MetadataTxt(basic, file_size, n),
                       !.frames = [k \in 1..n |-> BasicFrame(basic, data, k - 1)]]
    /\ UNCHANGED <<pc, data, conv, fps, num_frames, frames_metadata, slices, png,
                   audio_raw, metadata_json, decoder, output, verification, codec,
                   damage, reads>>

\* frames_to_file; it uses nothing of the instance it is called on.  With
\* no metadata.txt in the directory, open() raises at line 113 and nothing
\* is written.
FramesToFile ==
    /\ basic.pc \in {"start", "encoded"}
    /\ IF ~basic.metadata_txt.written
       THEN UNCHANGED basic
       ELSE LET original_size == ParseInt(basic.metadata_txt.original_size)
                n             == ParseInt(basic.metadata_txt.num_frames)
                all_data      == Concat(basic.frames, n)
            IN  basic' = [basic EXCEPT
                            !.pc = "decoded",
                            !.output = [written |-> TRUE,
                                        bytes |-> Slice(all_data, 0, original_size)]]
    /\ UNCHANGED <<pc, data, conv, fps, num_frames, frames_metadata, slices, png,
                   audio_raw, metadata_json, decoder, output, verification, codec,
                   damage, reads>>

\* the frame sizes of the enumerated basic converters: 3, 6 and 6 bytes
BasicGeometries == {<<1, 1>>, <<2, 1>>, <<1, 2>>}

BasicInit ==
    /\ data \in SmallFiles \cup ShortSequentialFiles
    /\ basic \in {BasicStart(g[1], g[2]) : g \in BasicGeometries}
    /\ pc = "unused"
    /\ conv = DefaultConverter
    /\ fps = AssumedFps
    /\ num_frames = 0
    /\ frames_metadata = <<>>
    /\ slices = <<>>
    /\ png = <<>>
    /\ audio_raw = NotWritten
    /\ metadata_json = NotWritten
    /\ decoder = conv
    /\ output = NotWritten
    /\ verification = "none"
    /\ codec = CodecIdle
    /\ damage = Undamaged
    /\ reads = NothingRead
    /\ cli = CliIdle

\* file_to_frames and frames_to_file called on the converter, as
\* src/example_usage.py does
BasicEncode == FileToFrames /\ UNCHANGED cli

BasicDecode == FramesToFile /\ UNCHANGED cli

BasicNext == BasicEncode \/ BasicDecode

BasicSpec == BasicInit /\ [][BasicNext]_vars

(***************************************************************************)
(* The command-line entry points: main of src/advanced_data_to_video.py    *)
(* (lines 489-530) and main of src/data_to_video.py (lines 201-239).  A    *)
(* run that returns from main ends the process with exit status 0; one     *)
(* that an uncaught exception leaves ends it with status 1.  Whether the   *)
(* input path exists is the run's input.  (The --video option, which calls *)
(* ffmpeg on the finished frames, is left out.)                            *)
(***************************************************************************)
\* what a run leaves behind
CliRun(program, mode, input_found, raised) ==
    [program |-> program, mode |-> mode, input_found |-> input_found,
     exit_status |-> IF raised THEN 1 ELSE 0]

\* everything but cli
session == <<pc, data, conv, fps, num_frames, frames_metadata, slices, png,
             audio_raw, metadata_json, decoder, output, verification, codec,
             damage, reads, basic>>

\* advanced main, mode encode: lines 515-520
MainEncode ==
    /\ pc = "start"
    /\ \E isfile \in BOOLEAN :
          IF ~isfile
          THEN \* lines 516-518: print the error, return
               /\ cli' = CliRun("advanced", "encode", FALSE, FALSE)
               /\ UNCHANGED session
          ELSE /\ FileToFramesWithAudio
               /\ cli' = CliRun("advanced", "encode", TRUE, pc' = "encode_failed")

\* what the input path of a decode run names: nothing, the directory of
\* this program's session, or another directory that exists and holds no
\* session of this program (an empty one, the other program's)
DecodeTargets == {"missing", "session", "other"}

\* advanced main, mode decode: lines 525-530.  On a directory that holds no
\* metadata.json the decode is attempted and raises at line 335; this
\* program's session is left as it was.
MainDecode ==
    /\ pc \in {"start", "encoded", "encode_failed"}
    /\ \E target \in DecodeTargets :
          CASE target = "missing" ->
                 \* lines 526-528: print the error, return
                 /\ cli' = CliRun("advanced", "decode", FALSE, FALSE)
                 /\ UNCHANGED session
            [] target = "other" ->
                 /\ cli' = CliRun("advanced", "decode", TRUE, TRUE)
                 /\ UNCHANGED session
            [] target = "session" ->
                 /\ FramesWithAudioToFile
                 /\ cli' = CliRun("advanced", "decode", TRUE, pc' # "decoded")

\* basic main, mode encode: src/data_to_video.py lines 221-227
BasicMainEncode ==
    /\ basic.pc = "start"
    /\ \E isfile \in BOOLEAN :
          IF ~isfile
          THEN /\ cli' = CliRun("basic", "encode", FALSE, FALSE)
               /\ UNCHANGED session
          ELSE /\ FileToFrames
               /\ cli' = CliRun("basic", "encode", TRUE, FALSE)

\* basic main, mode decode: src/data_to_video.py lines 233-239.  On a
\* directory that holds no metadata.txt the decode is attempted and raises
\* at line 113; this program's session is left as it was.
BasicMainDecode ==
    /\ basic.pc \in {"start", "encoded"}
    /\ \E target \in DecodeTargets :
          CASE target = "missing" ->
                 /\ cli' = CliRun("basic", "decode", FALSE, FALSE)
                 /\ UNCHANGED session
            [] target = "other" ->
                 /\ cli' = CliRun("basic", "decode", TRUE, TRUE)
                 /\ UNCHANGED session
            [] target = "session" ->
                 /\ FramesToFile
                 /\ cli' = CliRun("basic", "decode", TRUE, basic'.pc # "decoded")

\* main builds its converter from --width, --height and --sample-rate; the
\* channel count is always the default 2
CliConverters == {Converter(1, 1, 3870, 2), Converter(2, 1, 7680, 2)}

CliInit ==
    /\ pc = "start"
    /\ data \in {<<>>} \cup OneByteFiles \cup ShortSequentialFiles
    /\ conv \in CliConverters
    /\ basic = BasicStart(conv.width, conv.height)
    /\ fps \in FpsChoices
    /\ num_frames = 0
    /\ frames_metadata = <<>>
    /\ slices = <<>>
    /\ png = <<>>
    /\ audio_raw = NotWritten
    /\ metadata_json = NotWritten
    /\ decoder = conv
    /\ output = NotWritten
    /\ verification = "none"
    /\ codec = CodecIdle
    /\ damage = Undamaged
    /\ reads = NothingRead
    /\ cli = CliIdle

CliNext == MainEncode \/ MainDecode \/ BasicMainEncode \/ BasicMainDecode

CliSpec == CliInit /\ [][CliNext]_vars

(***************************************************************************)
(* Construction with arbitrary arguments: __init__, lines 29-43, stores    *)
(* its arguments and derives the capacities with integer arithmetic; no    *)
(* line of it tests a value or raises.                                     *)
(***************************************************************************)
\* constructor arguments: two positive geometries, and geometries with a
\* zero or negative width, height, sample rate or channel count whose total
\* capacity is 0 (lines 1-2), negative (lines 3-5) or positive (line 6)
Geometries ==
    { Converter(1, 1, 7710, 1), Converter(1, 1, 30, 1),
      Converter(0, 1, 29, 1), Converter(1, 0, 0, 2),
      Converter(0 - 1, 1, 29, 1), Converter(1, 1, 0 - 90, 1),
      Converter(1, 1, 30, 0 - 2), Converter(1, 1, 7710, 0) }

GeometryInit ==
    /\ pc = "unconstructed"
    /\ conv \in Geometries
    /\ data \in {<<>>} \cup OneByteFiles \cup ShortSequentialFiles
    /\ fps \in FpsChoices
    /\ num_frames = 0
    /\ frames_metadata = <<>>
    /\ slices = <<>>
    /\ png = <<>>
    /\ audio_raw = NotWritten
    /\ metadata_json = NotWritten
    /\ decoder = conv
    /\ output = NotWritten
    /\ verification = "none"
    /\ codec = CodecIdle
    /\ damage = Undamaged
    /\ reads = NothingRead
    /\ cli = CliIdle
    /\ basic = BasicIdle

\* AdvancedDataToVideoConverter(width, height, sample_rate, audio_channels)
Construct ==
    /\ pc = "unconstructed"
    /\ pc' = "start"
    /\ UNCHANGED <<data, conv, fps, num_frames, frames_metadata, slices, png,
                   audio_raw, metadata_json, decoder, output, verification, codec,
                   damage, reads, cli, basic>>

GeometryNext == Construct \/ Encode \/ Decode

GeometrySpec == GeometryInit /\ [][GeometryNext]_vars

(***************************************************************************)
(* file_to_frames_with_audio step by step, lines 207-317: the file is read *)
(* and the frame count computed, each iteration of the loop at line 241    *)
(* saves one frame and appends its FrameRecord, audio.raw is written at    *)
(* line 300 and metadata.json at lines 315-317.  The method catches        *)
(* nothing: an error raised by img.save (line 281), by np.concatenate      *)
(* (line 296, no frame), by tofile (line 300) or by the metadata write     *)
(* (lines 315-317) leaves it at once.  The frame index of the loop is the  *)
(* number of frames saved so far.                                          *)
(***************************************************************************)
StepInit ==
    /\ pc = "start"
    /\ data \in SmallFiles \cup ShortSequentialFiles
    /\ conv \in SmallConverters
    /\ fps \in FpsChoices
    /\ num_frames = 0
    /\ frames_metadata = <<>>
    /\ slices = <<>>
    /\ png = <<>>
    /\ audio_raw = NotWritten
    /\ metadata_json = NotWritten
    /\ decoder = conv
    /\ output = NotWritten
    /\ verification = "none"
    /\ codec = CodecIdle
    /\ damage = Undamaged
    /\ reads = NothingRead
    /\ cli = CliIdle
    /\ basic = BasicIdle

\* the state no step of encode touches
StepFrame ==
    UNCHANGED <<data, conv, fps, decoder, output, verification, codec, damage,
                reads, cli, basic>>

\* SomeFrameSaved stands for the end of the loop: one saved frame is enough
SomeFrameSaved == Len(png) >= 1

\* line 241: range(num_frames) is exhausted
AllFramesSaved == Len(png) = num_frames

\* lines 216-239: read the file, compute the frame count
ReadInput ==
    /\ pc = "start"
    /\ pc' = "encoding"
    /\ num_frames' = NumFrames(conv, Len(data))
    /\ UNCHANGED <<frames_metadata, slices, png, audio_raw, metadata_json>>
    /\ StepFrame

\* lines 241-290: one iteration of the loop, for frame_idx = Len(png)
EmitFrame ==
    /\ pc = "encoding"
    /\ ~audio_raw.written
    /\ ~AllFramesSaved
    /\ LET e == EncodeFrame(conv, data, Len(png))
       IN  /\ png' = Append(png, e.pixels)
           /\ slices' = Append(slices, e.slice)
           /\ frames_metadata' = Append(frames_metadata, e.meta)
    /\ UNCHANGED <<pc, num_frames, audio_raw, metadata_json>>
    /\ StepFrame

\* line 281: img.save raises (the directory is not writable, the disk is
\* full); the frames saved so far stay, nothing else is written
EmitFails ==
    /\ pc = "encoding"
    /\ ~audio_raw.written
    /\ ~AllFramesSaved
    /\ pc' = "encode_failed"
    /\ UNCHANGED <<num_frames, frames_metadata, slices, png, audio_raw,
                   metadata_json>>
    /\ StepFrame

\* lines 295-300: concatenate the audio frames and write audio.raw;
\* np.concatenate raises on an empty list, tofile on an I/O error
PersistAudio ==
    /\ pc = "encoding"
    /\ ~audio_raw.written
    /\ AllFramesSaved
    /\ \/ /\ Len(png) > 0
          /\ audio_raw' =
               [written |-> TRUE,
                bytes |-> Concat([k \in 1..Len(png) |->
                                     EncodeFrame(conv, data, k - 1).audio],
                                 Len(png))]
          /\ UNCHANGED pc
       \/ /\ pc' = "encode_failed"
          /\ UNCHANGED audio_raw
    /\ UNCHANGED <<num_frames, frames_metadata, slices, png, metadata_json>>
    /\ StepFrame

\* lines 302-317: build the metadata and write metadata.json
PersistMetadata ==
    /\ pc = "encoding"
    /\ audio_raw.written
    /\ pc' = "encoded"
    /\ metadata_json' =
         [written |-> TRUE,
          content |-> [original_size  |-> Len(data),
                       width          |-> conv.width,
                       height         |-> conv.height,
                       sample_rate    |-> conv.sample_rate,
                       audio_channels |-> conv.audio_channels,
                       num_frames     |-> num_frames,
                       fps            |-> fps,
                       frames         |-> frames_metadata]]
    /\ UNCHANGED <<num_frames, frames_metadata, slices, png, audio_raw>>
    /\ StepFrame

\* lines 315-317 raise: open() fails and no metadata.json is made, or the
\* write fails part-way (the disk is full) and leaves a cut-off
\* metadata.json, which is not parseable (the text json.dump writes ends
\* with the brace that closes it)
PersistMetadataFails ==
    /\ pc = "encoding"
    /\ audio_raw.written
    /\ pc' = "encode_failed"
    /\ \/ UNCHANGED <<metadata_json, damage>>
       \/ /\ metadata_json' =
               [written |-> TRUE,
                content |-> [original_size  |-> Len(data),
                             width          |-> conv.width,
                             height         |-> conv.height,
                             sample_rate    |-> conv.sample_rate,
                             audio_channels |-> conv.audio_channels,
                             num_frames     |-> num_frames,
                             fps            |-> fps,
                             frames         |-> frames_metadata]]
          /\ damage' = [level |-> "file", field |-> "unreadable", frame |-> 0]
    /\ UNCHANGED <<num_frames, frames_metadata, slices, png, audio_raw>>
    /\ UNCHANGED <<data, conv, fps, decoder, output, verification, codec, reads,
                   cli, basic>>

StepNext ==
    \/ ReadInput \/ EmitFrame \/ EmitFails \/ PersistAudio
    \/ PersistMetadata \/ PersistMetadataFails

StepSpec == StepInit /\ [][StepNext]_vars

(***************************************************************************)
(* Properties of the encode and decode passes (checked under Spec).        *)
(***************************************************************************)
EncodeRan == pc \in {"encoded", "encode_failed", "decoded", "decode_failed"}

EncodeCompleted == pc \in {"encoded", "decoded", "decode_failed"} /\ metadata_json.written

DecodeRan == pc \in {"decoded", "decode_failed"}

\* compression_ratio <= 1 in every FrameRecord of the persisted session
RatiosAtMostOne ==
    \A k \in 1..Len(metadata_json.content.frames) :
        LET r == metadata_json.content.frames[k].compression.compression_ratio
        IN  r.num <= r.den

\* C1: round trip of the advanced converter.  For any byte sequence B and
\* any geometry (here: one whose audio frame holds the matrix's samples)
\* where compressionRatio <= 1 in every frame, decoding the session that
\* encode produced on B, with the same converter, yields exactly B.
RoundTripLaw ==
    (EncodeCompleted /\ DecodeRan /\ decoder = conv /\ HoldsMatrix(conv)
        /\ RatiosAtMostOne)
        => (pc = "decoded" /\ output.written /\ output.bytes = data)

\* C4: the number of frames encode plans and produces is
\* ceil(fileSize / totalBytesPerFrame), the least n with
\* n * totalBytesPerFrame >= fileSize (0 for an empty file), and the
\* planned number is non-decreasing in the file size.
NumFramesIsCeil ==
    EncodeRan =>
        LET total == bytes_per_frame_total(conv)
        IN  /\ num_frames * total >= Len(data)
            /\ num_frames > 0 => (num_frames - 1) * total < Len(data)
            /\ Len(data) = 0 => num_frames = 0
            /\ Len(png) = num_frames
            /\ Len(frames_metadata) = num_frames
            /\ \A size \in 0..(Len(data) - 1) :
                   NumFrames(conv, size) <= NumFrames(conv, size + 1)

\* C4 witness: an encode that needed several frames, the last one partial
NumFramesWitness ==
    /\ pc = "encoded"
    /\ num_frames >= 2
    /\ Len(data) % bytes_per_frame_total(conv) # 0

\* C5: per-frame capacities are width*height*3 bytes of video and
\* (sampleRate div fps)*channels*2 bytes of audio, for the fps that encode
\* was called with: the planner's values and the sizes of what encode emits.
CapacitiesFollowFps ==
    EncodeCompleted =>
        LET audio_capacity == (conv.sample_rate \div fps) * conv.audio_channels * 2
        IN  /\ bytes_per_frame_video(conv) = conv.width * conv.height * 3
            /\ bytes_per_frame_audio(conv) = audio_capacity
            /\ \A k \in 1..num_frames : png[k].size = conv.width * conv.height * 3
            /\ Len(audio_raw.bytes) = num_frames * audio_capacity

\* video_bytes + audio_bytes summed over the first k FrameRecords
RECURSIVE BytesCounted(_, _)
BytesCounted(metas, k) ==
    IF k = 0 THEN 0
    ELSE BytesCounted(metas, k - 1) + metas[k].video_bytes + metas[k].audio_bytes

\* C6: byte accounting of encode.  In every frame videoByteCount +
\* audioByteCount is at most the frame's total capacity; the video slice
\* followed by the overflow slice of frame k is the file range that starts
\* where frame k-1 ended (frame 0 at offset 0), with no gap or overlap; and
\* the counts of all frames sum to the file size.
ByteAccounting ==
    EncodeRan =>
        LET n == Len(frames_metadata)
        IN  /\ Len(slices) = n
            /\ \A k \in 1..n :
                   LET m   == frames_metadata[k]
                       sl  == slices[k]
                       off == BytesCounted(frames_metadata, k - 1)
                   IN  /\ m.video_bytes + m.audio_bytes
                            <= bytes_per_frame_video(conv) + bytes_per_frame_audio(conv)
                       /\ m.video_bytes = Len(sl.video_data)
                       /\ m.audio_bytes = Len(sl.audio_data)
                       /\ sl.start_idx = off
                       /\ sl.video_data \o sl.audio_data
                            = SubSeq(data, off + 1, off + m.video_bytes + m.audio_bytes)
            /\ BytesCounted(frames_metadata, n) = Len(data)
            /\ metadata_json.written =>
                   BytesCounted(metadata_json.content.frames, n)
                       = metadata_json.content.original_size

\* C6 witness: a session of several frames in which a frame has both video
\* bytes and overflow bytes
ByteAccountingWitness ==
    /\ pc = "encoded"
    /\ Len(frames_metadata) >= 2
    /\ \E k \in 2..Len(frames_metadata) :
          frames_metadata[k].video_bytes > 0 /\ frames_metadata[k].audio_bytes > 0

\* C7: empty input boundary.  Encoding a file of size 0 completes with
\* num_frames = 0 and persists a session, and decoding that session
\* reconstructs the empty byte sequence.
EmptyInputBoundary ==
    (Len(data) = 0 /\ EncodeRan) =>
        /\ pc \in {"encoded", "decoded"}
        /\ num_frames = 0
        /\ metadata_json.written /\ metadata_json.content.num_frames = 0
        /\ pc = "decoded" => (output.written /\ output.bytes = <<>>)

\* C8: single-byte boundary.  For every byte value b, and every converter
\* whose audio frame holds the matrix's samples, encoding the one-byte file
\* [b] persists one FrameRecord with differential_base = b, and decode (by
\* the encoding converter or a default one) writes exactly [b].
SingleByteBoundary ==
    (Len(data) = 1 /\ HoldsMatrix(conv) /\ EncodeRan) =>
        /\ pc \in {"encoded", "decoded"}
        /\ metadata_json.written
        /\ Len(metadata_json.content.frames) = 1
        /\ metadata_json.content.frames[1].compression.differential_base = data[1]
        /\ pc = "decoded" =>
              (output.written /\ output.bytes = data /\ verification = "PASSED")

\* C8 witness: the one-byte file [255] went through encode and decode
SingleByteWitness ==
    /\ pc = "decoded"
    /\ data = <<EscapeByte>>
    /\ HoldsMatrix(conv)
    /\ output.bytes = <<EscapeByte>>

\* the compressed bytes are escape triples [255, value, count], 4 <= count <= 255
EscapeTriplesOnly(compressed) ==
    /\ Len(compressed) % 3 = 0
    /\ \A j \in 0..(Len(compressed) \div 3 - 1) :
          /\ compressed[3 * j + 1] = EscapeByte
          /\ compressed[3 * j + 3] > MinRun
          /\ compressed[3 * j + 3] <= 255

\* C9: repeated-byte scenario.  10,000 bytes of value 65 at the default
\* geometry are compressed into escape triples of at most 255 each, the
\* frame's compressionRatio is below 0.01, and decode reconstructs the
\* 10,000 bytes.
RepeatedByteScenario ==
    (Len(data) = Len(RepeatedFile) /\ data = RepeatedFile
        /\ conv = DefaultConverter /\ EncodeRan) =>
        /\ EncodeCompleted
        /\ num_frames = 1
        /\ EscapeTriplesOnly(png[1].head)
        /\ LET r == frames_metadata[1].compression.compression_ratio
           IN  100 * r.num < r.den
        /\ DecodeRan => (pc = "decoded" /\ output.bytes = data)

\* the frames encode would produce for file B with converter self
EncodedFrames(self, B) ==
    [k \in 1..NumFrames(self, Len(B)) |-> EncodeFrame(self, B, k - 1)]

\* C10 as stated: some input's compressed video exceeds videoBytesPerFrame
\* in some frame (and that frame then reports compressionRatio > 1).
TruncatingInputExists ==
    \E self \in SmallConverters, B \in SmallFiles \cup ShortSequentialFiles :
        \E k \in 1..NumFrames(self, Len(B)) :
            LET c == EncodedFrames(self, B)[k].meta.compression
            IN  /\ c.compressed_length > bytes_per_frame_video(self)
                /\ c.compression_ratio.num > c.compression_ratio.den

\* C10 amended: no input's compressed video exceeds videoBytesPerFrame.  In
\* every frame compressedLength <= originalLength <= videoBytesPerFrame, the
\* recorded compressionRatio is at most 1, and the pixel buffer holds the
\* whole compressed sequence, so decode's size check never fails because of
\* truncation.
NoTruncation ==
    EncodeRan =>
        \A k \in 1..Len(frames_metadata) :
            LET c == frames_metadata[k].compression
            IN  /\ c.compressed_length <= c.original_length
                /\ c.original_length <= bytes_per_frame_video(conv)
                /\ c.compression_ratio.num <= c.compression_ratio.den
                /\ Len(png[k].head) = c.compressed_length
                /\ png[k].size = bytes_per_frame_video(conv)

\* C10 witness: a frame whose compressed video fills the pixel buffer
\* exactly (an incompressible full video slice)
NoTruncationWitness ==
    /\ pc = "encoded"
    /\ \E k \in 1..Len(frames_metadata) :
          /\ frames_metadata[k].compression.compressed_length
                = bytes_per_frame_video(conv)
          /\ Len(png[k].head) = png[k].size

\* no iteration of the frame loop raises when `decoder` decodes the
\* persisted session
AllFramesDecode ==
    /\ metadata_json.written
    /\ damage.level \notin {"file", "top"}
    /\ \A k \in 1..metadata_json.content.num_frames :
          ~FrameRaises(damage,
                       DecodeFrame(decoder, metadata_json.content, png,
                                   audio_raw.bytes, k - 1),
                       k - 1)

\* C11: size verification is non-fatal.  Once all frames are decoded, the
\* reconstructed buffer cut to originalSize is written as the output file
\* and decode returns normally, whether or not its length equals
\* originalSize; the verification reports FAILED exactly when it does not.
SizeVerificationNonFatal ==
    (DecodeRan /\ AllFramesDecode) =>
        /\ pc = "decoded"
        /\ output.written
        /\ Len(output.bytes) <= metadata_json.content.original_size
        /\ verification \in {"PASSED", "FAILED"}
        /\ verification = "PASSED"
              <=> Len(output.bytes) = metadata_json.content.original_size

\* C11 witness: a decode that returned with a FAILED verification and a
\* shorter output file written
SizeVerificationWitness ==
    /\ pc = "decoded"
    /\ AllFramesDecode
    /\ verification = "FAILED"
    /\ output.written
    /\ Len(output.bytes) < metadata_json.content.original_size

\* the metadata decode finds is missing or damaged
MalformedMetadata == ~metadata_json.written \/ damage # Undamaged

\* C12: malformed metadata aborts early.  Whenever the session metadata is
\* missing or corrupt (unreadable, or lacking a field decode needs,
\* including the frames list and a frame's compression record), decode
\* fails, and it fails before it has read the audio stream or any frame
\* image.
MalformedMetadataAbortsEarly ==
    (DecodeRan /\ MalformedMetadata) =>
        /\ pc = "decode_failed"
        /\ ~output.written
        /\ ~reads.audio
        /\ reads.frames = 0

\* C15: round trip of the basic converter.  For every byte sequence B
\* (the empty one included) and positive width and height, file_to_frames
\* writes ceil(len(B) / (width*height*3)) frames of exactly width*height*3
\* bytes each, frame k holding B's k-th slice followed by zeros, and
\* frames_to_file on those frames and metadata writes exactly B.
BasicRoundTrip ==
    /\ basic.pc \in {"encoded", "decoded"} =>
          LET size == basic.width * basic.height * 3
              n    == Len(basic.frames)
          IN  /\ n * size >= Len(data)
              /\ n > 0 => (n - 1) * size < Len(data)
              /\ \A k \in 1..n :
                    /\ Len(basic.frames[k]) = size
                    /\ \A j \in 1..size :
                          basic.frames[k][j] =
                             IF (k - 1) * size + j <= Len(data)
                             THEN data[(k - 1) * size + j] ELSE 0
    /\ basic.pc = "decoded" => (basic.output.written /\ basic.output.bytes = data)

\* C15 witness: a file that needed several frames, the last one padded, was
\* written back
BasicRoundTripWitness ==
    /\ basic.pc = "decoded"
    /\ Len(basic.frames) >= 2
    /\ Len(data) % (basic.width * basic.height * 3) # 0
    /\ basic.output.bytes = data

\* the run just made found its input path missing and did no work
MissingInputRun ==
    /\ cli.program # "none"
    /\ ~cli.input_found

\* C13: the command-line entry points exit with a non-zero status whenever
\* the input path is missing (encode of a non-existent file, decode of a
\* non-existent directory), having done no encode or decode work.
MissingInputExitsNonZero ==
    MissingInputRun =>
        /\ cli.exit_status # 0
        /\ (cli.program = "advanced" /\ cli.mode = "encode") =>
              (pc = "start" /\ ~metadata_json.written /\ png = <<>>)
        /\ (cli.program = "advanced" /\ cli.mode = "decode") =>
              (~DecodeRan /\ ~output.written)
        /\ (cli.program = "basic" /\ cli.mode = "encode") =>
              (basic.pc = "start" /\ ~basic.metadata_txt.written)
        /\ (cli.program = "basic" /\ cli.mode = "decode") =>
              (basic.pc # "decoded" /\ ~basic.output.written)

\* what frames_with_audio_to_file, called on instance self, does with the
\* persisted session: whether it raises, and the output file
DecodeOutcome(self) ==
    LET r == DecodePass(self, metadata_json, damage, png, audio_raw)
    IN  [raised |-> r.raised, output |-> r.output]

\* C14: decode depends only on the persisted session.  Whatever instance
\* decoded it, an instance constructed with other width, height,
\* sample_rate or audio_channels produces the same outcome and a
\* byte-identical output file from the same session.
DecodeIndependentOfInstance ==
    (DecodeRan /\ EncodeCompleted) =>
        \A other \in Decoders :
            DecodeOutcome(other) = [raised |-> pc = "decode_failed", output |-> output]

\* width, height, sample rate and channel count are all positive
PositiveGeometry(self) ==
    /\ self.width > 0
    /\ self.height > 0
    /\ self.sample_rate > 0
    /\ self.audio_channels > 0

\* C16: capacity planning rejects non-positive geometry.  Constructing a
\* converter with a width, height, sample rate or channel count <= 0 is
\* rejected as an error; an accepted geometry is positive, its total
\* capacity per frame is positive, and planning the frames of a file does
\* not fail for it.
NonPositiveGeometryRejected ==
    pc # "unconstructed" =>
        /\ ~PositiveGeometry(conv) => pc = "rejected"
        /\ pc # "rejected" =>
              /\ bytes_per_frame_total(conv) > 0
              /\ EncodeRan =>
                    /\ num_frames >= 0
                    /\ num_frames * bytes_per_frame_total(conv) >= Len(data)

\* C17: differential decode uses wraparound arithmetic seeded with the
\* base.  For every frame of a decoded session, with diff the run-length
\* decoded sequence of the frame, the bytes the decoder reconstructs satisfy
\* original[0] = differentialBase and
\* original[i] = (original[i-1] + diff[i]) mod 256 for i > 0; in particular
\* bytes(range(256)) * 100 is reconstructed exactly.
DifferentialWraparound ==
    (pc = "decoded" /\ EncodeCompleted) =>
        /\ \A k \in 1..metadata_json.content.num_frames :
              LET m        == metadata_json.content.frames[k]
                  diff     == DecodeRle(FrameBytes(png[k], m.video_bytes))
                  original == DecodeFrame(decoder, metadata_json.content, png,
                                          audio_raw.bytes, k - 1).video_data
              IN  /\ Len(original) = m.compression.original_length
                  /\ Len(original) > 0 =>
                        original[1] = m.compression.differential_base
                  /\ \A i \in 2..Len(original) :
                        original[i] = (original[i - 1] + diff[i]) % 256
        /\ (Len(data) = Len(CyclingFile) /\ data = CyclingFile) => output.bytes = data

\* the AudioFrame of frame k (1-based) in the persisted audio stream
AudioFrameOf(k) ==
    Slice(audio_raw.bytes, (k - 1) * bytes_per_frame_audio(conv),
          k * bytes_per_frame_audio(conv))

\* C19: overflow bound.  In every frame encode produces (with an audio
\* frame that holds the matrix), the overflow assigned to the audio channel
\* is at most audioBytesPerFrame minus the matrix's footprint of
\* 2 * matrixSize^2 bytes, and the overflow bytes counted in the FrameRecord
\* are present in the frame's AudioFrame, right after the matrix.
OverflowBound ==
    (EncodeCompleted /\ HoldsMatrix(conv)) =>
        \A k \in 1..num_frames :
            LET m         == frames_metadata[k]
                footprint == 2 * MatrixSize * MatrixSize
            IN  /\ m.audio_bytes <= bytes_per_frame_audio(conv) - footprint
                /\ Slice(AudioFrameOf(k), footprint, footprint + m.audio_bytes)
                      = slices[k].audio_data

\* C20: audio cursor alignment.  When the encoding geometry decodes, the
\* audio read cursor advances by exactly samplesPerFrame per frame, and at
\* the start of frame k it stands at the first sample of frame k's
\* AudioFrame in the persisted stream (16-bit samples: byte offset
\* k * audioBytesPerFrame), for every frame and every geometry, two
\* channels included.
AudioCursorAligned ==
    (DecodeRan /\ EncodeCompleted /\ decoder = conv) =>
        \A k \in 1..Len(reads.cursors) :
            /\ k > 1 => reads.cursors[k] - reads.cursors[k - 1] = samples_per_frame(conv)
            /\ 2 * reads.cursors[k] = (k - 1) * bytes_per_frame_audio(conv)

\* C21: overflow read-back.  For every frame of a decoded session, decode
\* skips matrixSize^2 samples from the frame's cursor position and appends
\* exactly audioByteCount bytes of literal overflow, the bytes of the audio
\* stream that follow the matrix, whether audioByteCount is odd or even.
OverflowReadBack ==
    (pc = "decoded" /\ EncodeCompleted) =>
        \A k \in 1..metadata_json.content.num_frames :
            LET m        == metadata_json.content.frames[k]
                matrix   == m.compression.matrix_size * m.compression.matrix_size
                from     == 2 * (reads.cursors[k] + matrix)
                appended == DecodeFrame(decoder, metadata_json.content, png,
                                        audio_raw.bytes, k - 1).audio_data
            IN  /\ Len(appended) = m.audio_bytes
                /\ appended = Slice(audio_raw.bytes, from, from + m.audio_bytes)

\* C22: fixed frame sizes.  For every frame encode emits, the pixel buffer
\* is exactly videoBytesPerFrame bytes, the compressed video followed by
\* zeros (read over the MaxLen bytes that follow the compressed video, the
\* buffer being kept as its head and its size), and the audio buffer appended to the session stream is exactly
\* audioBytesPerFrame bytes; after n frames the stream holds
\* n * audioBytesPerFrame bytes.
FixedFrameSizes ==
    EncodeCompleted =>
        /\ Len(png) = num_frames
        /\ Len(audio_raw.bytes) = num_frames * bytes_per_frame_audio(conv)
        /\ \A k \in 1..num_frames :
              LET size   == bytes_per_frame_video(conv)
                  c      == frames_metadata[k].compression.compressed_length
                  upto   == Min(png[k].size, c + MaxLen)
                  pixels == FrameBytes(png[k], upto)
              IN  /\ png[k].size = size
                  /\ Len(png[k].head) = Min(c, size)
                  /\ Len(pixels) = Min(size, c + MaxLen)
                  /\ \A j \in 1..Len(pixels) : j > c => pixels[j] = 0
                  /\ Len(AudioFrameOf(k)) = bytes_per_frame_audio(conv)

\* C22 witness: a session of several frames, one of them with a compressed
\* video shorter than the pixel buffer, and a non-empty audio frame
FixedFrameSizesWitness ==
    /\ pc = "encoded"
    /\ num_frames >= 2
    /\ bytes_per_frame_audio(conv) > 0
    /\ \E k \in 1..num_frames : Len(png[k].head) < png[k].size

\* C23: decode slices by compressedLength.  For every frame of a decoded
\* session, the bytes decode hands to the RLE decoder are exactly the
\* compressed sequence the encoder stored in the frame, compressedLength
\* bytes long, with none of the pixel buffer's zero padding after it.
SlicedByCompressedLength ==
    (pc = "decoded" /\ EncodeCompleted) =>
        \A k \in 1..metadata_json.content.num_frames :
            LET m     == metadata_json.content.frames[k]
                given == DecodeFrame(decoder, metadata_json.content, png,
                                     audio_raw.bytes, k - 1).compressed_bytes
            IN  /\ Len(given) = m.compression.compressed_length
                /\ given = png[k].head

\* C24: persistence ordering of encode (checked under StepSpec).  Every
\* step that emits a frame appends exactly one FrameRecord, whose frame index
\* is its position in the list (0, 1, 2, ... in this order) and the number
\* of frames saved before it; audio.raw is written only when every frame
\* has been emitted, metadata.json only after audio.raw and with the
\* complete frame list; an encode that fails part-way, or at the audio
\* write, leaves no metadata.json, and one that fails at the metadata write
\* leaves at most a cut-off, unparseable file beside the complete frames
\* and audio.
PersistenceOrdering ==
    [][ /\ frames_metadata' # frames_metadata =>
              /\ Len(frames_metadata) = Len(png)
              /\ frames_metadata' =
                    Append(frames_metadata,
                           frames_metadata'[Len(frames_metadata) + 1])
              /\ frames_metadata'[Len(frames_metadata) + 1].frame_idx
                    = Len(frames_metadata)
              /\ Len(png') = Len(png) + 1
              /\ Len(png') <= num_frames
              /\ ~audio_raw'.written /\ ~metadata_json'.written
        /\ (audio_raw'.written /\ ~audio_raw.written) =>
              /\ Len(png) = num_frames
              /\ Len(frames_metadata) = num_frames
              /\ UNCHANGED <<png, frames_metadata>>
              /\ ~metadata_json'.written
        /\ (metadata_json'.written /\ ~metadata_json.written) =>
              /\ audio_raw.written
              /\ UNCHANGED <<png, frames_metadata, audio_raw>>
              /\ Len(png) = num_frames
              /\ metadata_json'.content.num_frames = num_frames
              /\ metadata_json'.content.frames = frames_metadata
              /\ \A k \in 1..num_frames : frames_metadata[k].frame_idx = k - 1
              /\ pc' \in {"encoded", "encode_failed"}
              /\ pc' = "encoded" => damage' = Undamaged
        /\ (pc' = "encode_failed" /\ (Len(png') < num_frames' \/ ~audio_raw'.written))
              => ~metadata_json'.written
        /\ (pc' = "encode_failed" /\ metadata_json'.written) =>
              /\ Len(png') = num_frames'
              /\ audio_raw'.written
              /\ damage'.level = "file"
      ]_vars

\* C24 witness: an encode that failed part-way, with some but not all of its
\* frames emitted
PartWayFailure ==
    /\ pc = "encode_failed"
    /\ Len(png) >= 1
    /\ Len(png) < num_frames
    /\ Len(frames_metadata) = Len(png)

(***************************************************************************)
(* The codec functions on their own: one input D, to which either the      *)
(* differential pair (lines 57-63 and 377-384, with differential_base      *)
(* taken as at line 88) or the run-length pair (_apply_rle, _decode_rle)   *)
(* is applied.                                                             *)
(***************************************************************************)
\* runs around the cap of 255 elements per escape, alone or before another
\* byte
LongRunInputs ==
    {Repeat(v, n) \o tail : v \in {0, EscapeByte},
                            n \in {254, 255, 256, 258, 259, 510},
                            tail \in {<<>>, <<1>>}}

CodecInputs == (UNION {[1..n -> Alphabet] : n \in 0..MaxLen}) \cup LongRunInputs

CodecInit ==
    /\ codec \in {[op |-> "input", D |-> D] : D \in CodecInputs}
    /\ pc = "unused"
    /\ data = <<>>
    /\ conv = DefaultConverter
    /\ fps = AssumedFps
    /\ num_frames = 0
    /\ frames_metadata = <<>>
    /\ slices = <<>>
    /\ png = <<>>
    /\ audio_raw = NotWritten
    /\ metadata_json = NotWritten
    /\ decoder = conv
    /\ output = NotWritten
    /\ verification = "none"
    /\ damage = Undamaged
    /\ reads = NothingRead
    /\ cli = CliIdle
    /\ basic = BasicIdle

pipeline == <<pc, data, conv, fps, num_frames, frames_metadata, slices, png,
              audio_raw, metadata_json, decoder, output, verification, damage,
              reads, cli, basic>>

CodecDifferential ==
    /\ codec.op = "input"
    /\ LET D       == codec.D
           encoded == DifferentialEncode(D)
           base    == IF Len(D) > 0 THEN D[1] ELSE 0
       IN  codec' = [op |-> "differential", D |-> D, encoded |-> encoded,
                     decoded |-> DifferentialDecode(encoded, base)]
    /\ UNCHANGED pipeline

CodecRle ==
    /\ codec.op = "input"
    /\ LET D       == codec.D
           encoded == ApplyRle(D)
       IN  codec' = [op |-> "rle", D |-> D, encoded |-> encoded,
                     decoded |-> DecodeRle(encoded)]
    /\ UNCHANGED pipeline

CodecNext == CodecDifferential \/ CodecRle

CodecSpec == CodecInit /\ [][CodecNext]_vars

(***************************************************************************)
(* The loops of _apply_rle (lines 100-110) and _decode_rle (lines 121-129) *)
(* one iteration at a time: codec.st is the loop's state (the scan index i *)
(* and the output so far), codec.iters the iterations run.  _decode_rle    *)
(* takes any byte sequence, not only what _apply_rle returns.  A running   *)
(* loop runs its next iteration, hence the weak fairness.                  *)
(***************************************************************************)
LoopInit ==
    /\ codec \in {[loop |-> l, D |-> D, st |-> [i |-> 0, out |-> <<>>],
                   iters |-> 0, done |-> FALSE] :
                      l \in {"apply_rle", "decode_rle"},
                      D \in UNION {[1..n -> Alphabet] : n \in 0..MaxLen}}
    /\ pc = "unused"
    /\ data = <<>>
    /\ conv = DefaultConverter
    /\ fps = AssumedFps
    /\ num_frames = 0
    /\ frames_metadata = <<>>
    /\ slices = <<>>
    /\ png = <<>>
    /\ audio_raw = NotWritten
    /\ metadata_json = NotWritten
    /\ decoder = conv
    /\ output = NotWritten
    /\ verification = "none"
    /\ damage = Undamaged
    /\ reads = NothingRead
    /\ cli = CliIdle
    /\ basic = BasicIdle

\* lines 100-110: one iteration of `while i < len(data)` in _apply_rle
ApplyRleStep ==
    /\ codec.loop = "apply_rle" /\ ~codec.done
    /\ codec.st.i < Len(codec.D)
    /\ codec' = [codec EXCEPT !.st = ApplyRleBody(codec.D, codec.st),
                              !.iters = codec.iters + 1]
    /\ UNCHANGED pipeline

\* lines 121-129: one iteration of `while i < len(data)` in _decode_rle
DecodeRleStep ==
    /\ codec.loop = "decode_rle" /\ ~codec.done
    /\ codec.st.i < Len(codec.D)
    /\ codec' = [codec EXCEPT !.st = DecodeRleBody(codec.D, codec.st),
                              !.iters = codec.iters + 1]
    /\ UNCHANGED pipeline

\* lines 95-96, 112 and 116-117, 131: the loop condition fails (or the input
\* is empty) and the function returns
LoopReturn ==
    /\ ~codec.done
    /\ ~(codec.st.i < Len(codec.D))
    /\ codec' = [codec EXCEPT !.done = TRUE]
    /\ UNCHANGED pipeline

LoopNext == ApplyRleStep \/ DecodeRleStep \/ LoopReturn

LoopSpec == LoopInit /\ [][LoopNext]_vars /\ WF_vars(LoopNext)

(***************************************************************************)
(* Properties of the codec functions (checked under CodecSpec).            *)
(***************************************************************************)
\* C2: differential codec inverse law.  For every byte sequence D, the
\* decoder's reversal of the differential encoding, given
\* differential_base = D[0], returns D.
DifferentialInverseLaw ==
    codec.op = "differential" => codec.decoded = codec.D

\* the maximal run of equal values around position p of D
RunLo(D, p) ==
    CHOOSE lo \in 1..p : /\ \A k \in lo..p : D[k] = D[p]
                         /\ (lo = 1 \/ D[lo - 1] # D[p])

RunHi(D, p) ==
    CHOOSE hi \in p..Len(D) : /\ \A k \in p..hi : D[k] = D[p]
                              /\ (hi = Len(D) \/ D[hi + 1] # D[p])

\* every 255 of D lies in a run that _apply_rle emits as escapes only: the
\* run is longer than 3, and so is what is left of it after cuts at 255
EscapeByteOnlyInRuns(D) ==
    \A p \in 1..Len(D) :
        D[p] = EscapeByte =>
            LET L == RunHi(D, p) - RunLo(D, p) + 1
            IN  L > MinRun /\ (L % 255 = 0 \/ L % 255 > MinRun)

\* C3: run-length codec inverse law.  For every byte sequence D in which
\* the value 255 appears only inside runs that are encoded as escapes (in
\* particular when D holds no 255), _decode_rle(_apply_rle(D)) = D.
RleInverseLaw ==
    (codec.op = "rle" /\ EscapeByteOnlyInRuns(codec.D)) => codec.decoded = codec.D

\* C3 witness: the run-length pair was applied to an input that holds a
\* run of 255s, encoded as an escape, next to another byte
RleInverseWitness ==
    /\ codec.op = "rle"
    /\ EscapeByteOnlyInRuns(codec.D)
    /\ \E p \in 1..Len(codec.D) : codec.D[p] = EscapeByte
    /\ \E p \in 1..Len(codec.D) : codec.D[p] # EscapeByte
    /\ Len(codec.encoded) < Len(codec.D)
    /\ codec.decoded = codec.D

\* the positions of D at which a maximal run of equal values starts
RunStartsOf(D) == {p \in 1..Len(D) : p = 1 \/ D[p] # D[p - 1]}

\* the last position of the maximal run that starts at b
RunEndOf(D, b) ==
    LET later == {q \in RunStartsOf(D) : q > b}
    IN  IF later = {} THEN Len(D)
        ELSE (CHOOSE q \in later : \A r \in later : q <= r) - 1

\* the runs of the claim: each maximal run, cut every 255 elements
CutRuns(D) ==
    UNION { { [start |-> b + 255 * j,
               count |-> Min(255, RunEndOf(D, b) - (b + 255 * j) + 1)] :
              j \in 0..((RunEndOf(D, b) - b) \div 255) } :
            b \in RunStartsOf(D) }

\* what the rule emits for one run
EmittedFor(D, run) ==
    IF run.count > 3
    THEN <<255, D[run.start], run.count>>
    ELSE Repeat(D[run.start], run.count)

\* the emissions of the runs from position p on, in order
RECURSIVE EmittedFrom(_, _, _)
EmittedFrom(D, runs, p) ==
    IF p > Len(D) THEN <<>>
    ELSE LET run == CHOOSE r \in runs : r.start = p
         IN  EmittedFor(D, run) \o EmittedFrom(D, runs, p + run.count)

\* C18: run-length encode rule.  _apply_rle partitions its input into
\* consecutive runs of identical values, each maximal except for a cut at
\* 255 elements; its output is, run by run, the escape [255, value, count]
\* when count > 3 and count literal copies of value otherwise, so every
\* emitted escape has 4 <= count <= 255.
RleEncodeRule ==
    codec.op = "rle" =>
        LET D    == codec.D
            runs == CutRuns(D)
        IN  /\ \A r \in runs : r.count >= 1 /\ r.count <= 255
            /\ \A p \in 1..Len(D) :
                  Cardinality({r \in runs : r.start <= p /\ p < r.start + r.count}) = 1
            /\ codec.encoded = EmittedFrom(D, runs, 1)

\* C18 witness: the encoder met a run longer than 255, emitted as an escape
\* of 255 and a remainder, and a run of at most 3, emitted literally
RleEncodeRuleWitness ==
    /\ codec.op = "rle"
    /\ \E b \in RunStartsOf(codec.D) : RunEndOf(codec.D, b) - b + 1 > 255
    /\ \E r \in CutRuns(codec.D) : r.count = 255
    /\ \E r \in CutRuns(codec.D) : r.count <= 3
    /\ Len(codec.encoded) < Len(codec.D)

\* C25: RLE never expands.  For every input D, _apply_rle(D) is no longer
\* than D; hence for a frame whose video slice has these differences the
\* recorded compression ratio is at most 1 and, in a pixel buffer of
\* Len(D) bytes or more, the cut to the buffer's size keeps every
\* compressed byte.
RleNeverExpands ==
    codec.op = "rle" =>
        LET D    == codec.D
            E    == codec.encoded
            meta == CompressionMeta(D, E)
        IN  /\ Len(E) <= Len(D)
            /\ meta.compressed_length <= meta.original_length
            /\ meta.compression_ratio.num <= meta.compression_ratio.den
            /\ \A size \in Len(D)..(Len(D) + 1) :
                  size > 0 => FitVideo(E, size).head = E

\* C25 witness: an input of full length holding the escape byte as a
\* literal, compressed to its own length
RleNeverExpandsWitness ==
    /\ codec.op = "rle"
    /\ Len(codec.D) = MaxLen
    /\ Len(codec.encoded) = Len(codec.D)
    /\ \E p \in 1..Len(codec.D) : codec.D[p] = EscapeByte

\* C26: the RLE loops terminate (checked under LoopSpec).  On every byte
\* sequence, a compressed input with an escape of count 0 or with a 255 in
\* one of its last two positions included, each iteration of the loop of
\* _apply_rle and of _decode_rle moves the scan index forward by at least 1,
\* no loop runs more than len(input) iterations, and the function returns.
RleLoopsTerminate ==
    /\ [][codec'.iters # codec.iters =>
             /\ codec'.iters = codec.iters + 1
             /\ codec'.st.i >= codec.st.i + 1]_vars
    /\ [](codec.iters <= Len(codec.D))
    /\ <>(codec.done)

\* C26 witness: _decode_rle has returned from an input that begins with an
\* escape of count 0 and ends with a 255
MalformedInputDecoded ==
    /\ codec.loop = "decode_rle"
    /\ codec.done
    /\ Len(codec.D) >= 4
    /\ codec.D[1] = EscapeByte /\ codec.D[3] = 0
    /\ codec.D[Len(codec.D)] = EscapeByte
    /\ codec.st.i = Len(codec.D)

====
